---- MODULE Spec2Model ----
(***************************************************************************)
(* A model of schedule_basic (src/optimisation/opt_basic_schedule.py) and  *)
(* of the loop of src/pipeline.py that calls it.                           *)
(*                                                                         *)
(* The time grid is scaled: a day has d periods instead of 96.  Every other *)
(* calendar quantity is computed from d by the expression the source uses, *)
(* so that d = 96 gives the source's numbers (w = 672, s = 132, 32 periods *)
(* of business hours, nperiod = 2880, 768 = d + w).                        *)
(*                                                                         *)
(* Gurobi is outside the repository.  Its search is modelled as branching  *)
(* on the variables of the model in period order: a branch is kept exactly *)
(* when every constraint the builder added whose variables are all fixed   *)
(* holds.  The builder's text for phase 1 (lines 157-239) and for phase 2  *)
(* (lines 259-350) is the same, so one set of definitions models both.     *)
(*                                                                         *)
(* SpecSched is the search over the activity variables, SpecLong the same  *)
(* search for an activity as long as a day's business hours or longer,     *)
(* SpecPower the search over the battery and power variables, SpecRun one  *)
(* run of schedule_basic from reading its inputs to its return, and        *)
(* SpecPeak two runs of phase 2 that differ in max_limit.  SpecRead is the *)
(* reading of the inputs over instances and forecast tables of several     *)
(* shapes, SpecPhase1 phase 1 alone, SpecData the time stamps of the grid  *)
(* with their day of the week and time of day, and SpecPipe the loop of    *)
(* pipeline.py over the instance files, with the directory final_output.   *)
(***************************************************************************)
EXTENDS Integers, Sequences, FiniteSets, TLC

VARIABLES
    inst,           \* the problem instance read by read_ppoi, with base_load and price_elec
    pc,             \* position in the program
    fixed,          \* number of periods whose variables the solver has fixed
    ract_begin,     \* ract_begin[act]: the periods t with ract_begin[act,t] = 1
    ract_ongoing,   \* ract_ongoing[act]: the periods t with ract_ongoing[act,t] = 1
    bat_charge,     \* bat_charge[bat]: value at the period fixed last
    bat_discharge,  \* bat_discharge[bat]: value at the period fixed last
    bat_level,      \* bat_level[bat]: value at the period fixed last
    act_power,      \* act_power at the period fixed last
    net_power,      \* net_power at the period fixed last
    runs,           \* runs[r]: the local variables of run r of schedule_basic
    file,           \* pipeline.py: the place in files of the file at hand
    costs,          \* pipeline.py: the list costs
    final_output    \* the directory final_output: the lines of each file in it

vars == <<inst, pc, fixed, ract_begin, ract_ongoing,
          bat_charge, bat_discharge, bat_level, act_power, net_power, runs,
          file, costs, final_output>>

\* the variables of pipeline.py
Script == <<file, costs, final_output>>

\* pipeline.py is not running
NoScript ==
    /\ file = 0
    /\ costs = <<>>
    /\ final_output = <<>>

-----------------------------------------------------------------------------
(* Bounds of the model *)

\* periods per day (96 in the source)
d == 4

\* an assignment occupies rooms, per week and over all activities, for at most
\* this many periods beyond the activities' durations
MaxIdle == 1

-----------------------------------------------------------------------------
(* 2. DEFINE SETS AND PARAMETERS FOR MODELS *)

\* 672 = 7 * 96
w == 7 * d

\* 36 of 96 periods pass before 9am
nine_am == (3 * d) \div 8

\* 32 of 96 periods are business hours
hours == (d + 2) \div 3

\* 132 = 96 + 36: Monday of week 1, 9am
s == d + nine_am

nperiod == 30 * d

range(a, b) == a .. (b - 1)

weekdays == range(0, 5) \cup range(7, 12) \cup range(14, 19) \cup range(21, 26) \cup {28}

\* the same with the Saturdays in it
valid_t_WithSaturdays ==
    UNION { range(s + i * d, s + i * d + hours) : i \in weekdays \cup {5, 12, 19, 26} }

valid_t == UNION { range(s + i * d, s + i * d + hours) : i \in weekdays }

nonvalid_t == range(0, nperiod) \ valid_t

week1_t == range(d, d + w)
week2_t == range(d + w, d + w * 2)
week3_t == range(d + w * 2, d + w * 3)
week4_t == range(d + w * 3, d + w * 4)
week5_t == range(d + w * 4, nperiod)

full_weeks == {week1_t, week2_t, week3_t, week4_t}

\* e*4 + [1]*96 + [2]*96: the grid begins on a Monday
dayofweek_FromMonday(t) == ((t \div d) % 7) + 1

\* [7]*96 + e*4 + [1]*96, e = days 1..7 of 96 periods each
dayofweek(t) ==
    IF t < d THEN 7
    ELSE IF t >= d + 4 * w THEN 1
    ELSE (((t - d) \div d) % 7) + 1

\* t*30 with t = [0..95]
timeofday(t) == t % d

\* The order in which the search fixes the periods: those outside business hours
\* first, then those inside, each group in increasing order.  rank[t] is the
\* place of period t in that order and order[k] the period at place k.
rank ==
    [t \in range(0, nperiod) |->
        IF t \in valid_t
        THEN Cardinality(nonvalid_t) + Cardinality({u \in valid_t : u < t})
        ELSE Cardinality({u \in nonvalid_t : u < t})]

order == [k \in range(0, nperiod) |-> CHOOSE t \in range(0, nperiod) : rank[t] = k]

\* the variables of period u are fixed once those of period t are
Fixed(u, t) == rank[u] <= rank[t]

\* the period of a week that is fixed last
week_last == [wk \in full_weeks |-> CHOOSE u \in wk : \A v \in wk : rank[v] <= rank[u]]

\* the variables of the whole week are fixed once those of period t are
AllFixed(wk, t) == Fixed(week_last[wk], t)

-----------------------------------------------------------------------------
(* Sums *)

RECURSIVE SumSeq(_)
SumSeq(q) == IF q = <<>> THEN 0 ELSE Head(q) + SumSeq(Tail(q))

-----------------------------------------------------------------------------
(* 1. Read in datasets for input *)

nreccur == Len(inst.recur)
nbattery == Len(inst.battery)
acts == range(0, nreccur)
bats == range(0, nbattery)

\* recurring_activity_instance[column][act]; rows are numbered from 0
duration(act) == inst.recur[act + 1].duration
precedence_list(act) == inst.recur[act + 1].precedence_list
load_kwh(act) == inst.recur[act + 1].load_kwh
no_of_rooms(act) == inst.recur[act + 1].no_of_rooms

no_small_rooms(act) ==
    IF inst.recur[act + 1].room_size = "S" THEN no_of_rooms(act) ELSE 0

no_large_rooms(act) ==
    IF inst.recur[act + 1].room_size = "S" THEN 0 ELSE no_of_rooms(act)

\* battery_instance[column][bat]; rows are numbered from 0
capacity_kwh(bat) == inst.battery[bat + 1].capacity_kwh
max_power_kwh(bat) == inst.battery[bat + 1].max_power_kwh
efficiency(bat) == inst.battery[bat + 1].efficiency

\* netload[t] and price_elec[t]
base_load(t) == inst.netload[(t % Len(inst.netload)) + 1]
price_elec(t) == inst.price[(t % Len(inst.price)) + 1]

nsmallroom == SumSeq([i \in 1 .. Len(inst.building) |-> inst.building[i].no_small_rooms])
nlargeroom == SumSeq([i \in 1 .. Len(inst.building) |-> inst.building[i].no_large_rooms])

-----------------------------------------------------------------------------
(* The activity constraints of the builder.  begin and ongoing give, per     *)
(* activity, the periods where the binary variable is 1.  Each definition    *)
(* states the constraints of its family that have a variable at period t and *)
(* whose variables are all fixed once those of period t are.                 *)

Val(S, t) == IF t \in S THEN 1 ELSE 0

\* gp.quicksum over a collection of terms, given as <<index, term>> pairs
RECURSIVE quicksum(_)
quicksum(P) == IF P = {} THEN 0 ELSE LET x == CHOOSE y \in P : TRUE IN x[2] + quicksum(P \ {x})

\* the terms of quicksum(x[act,u] for u in wk) that are not 0
Ones(S, wk) == {<<u, Val(S, u)>> : u \in {v \in S : v \in wk}}

\* each activity happens only once a week.  On the variables fixed so far the sum
\* of a week cannot exceed 1, the variables being >= 0, and it is 1 once the
\* whole week is fixed.
WeeklyOccurrence_AtLeast(begin, act, t) ==
    \A wk \in full_weeks :
        (t \in wk /\ AllFixed(wk, t)) => quicksum(Ones(begin[act], wk)) >= 1

WeeklyOccurrence(begin, act, t) ==
    \A wk \in full_weeks :
        t \in wk =>
            /\ quicksum(Ones(begin[act], wk)) <= 1
            /\ AllFixed(wk, t) => quicksum(Ones(begin[act], wk)) = 1

\* precedence activity must happen before
Precedence_Reversed(begin, act, t) ==
    (t \in week1_t /\ Len(precedence_list(act)) > 0 /\ AllFixed(week1_t, t)) =>
        \A i \in 1 .. Len(precedence_list(act)) :
            LET prec_act == precedence_list(act)[i]
            IN  quicksum({<<x[1], x[2] * x[1]>> : x \in Ones(begin[act], week1_t)})
                    <= quicksum({<<x[1], x[2] * x[1]>> : x \in Ones(begin[prec_act], week1_t)})

Precedence(begin, act, t) ==
    (t \in week1_t /\ Len(precedence_list(act)) > 0 /\ AllFixed(week1_t, t)) =>
        \A i \in 1 .. Len(precedence_list(act)) :
            LET prec_act == precedence_list(act)[i]
            IN  quicksum({<<x[1], x[2] * x[1]>> : x \in Ones(begin[act], week1_t)})
                    >= quicksum({<<x[1], x[2] * x[1]>> : x \in Ones(begin[prec_act], week1_t)})

\* same time every week: for num in range(768, nperiod), 768 = d + w, 672 = w.
\* Period t is num in one constraint and num - 672 in another.
Periodicity_BeginOnly(begin, ongoing, act, t) ==
    \A num \in {t, t + w} \cap range(d + w, nperiod) :
        (Fixed(num, t) /\ Fixed(num - w, t)) =>
            Val(begin[act], num) = Val(begin[act], num - w)

\* the same, for the periods of the four full weeks only
Periodicity_FullWeeks(begin, ongoing, act, t) ==
    \A num \in {t, t + w} \cap range(d + w, d + 4 * w) :
        (Fixed(num, t) /\ Fixed(num - w, t)) =>
            /\ Val(begin[act], num) = Val(begin[act], num - w)
            /\ Val(ongoing[act], num) = Val(ongoing[act], num - w)

Periodicity(begin, ongoing, act, t) ==
    \A num \in {t, t + w} \cap range(d + w, nperiod) :
        (Fixed(num, t) /\ Fixed(num - w, t)) =>
            /\ Val(begin[act], num) = Val(begin[act], num - w)
            /\ Val(ongoing[act], num) = Val(ongoing[act], num - w)

\* activity should last as long as their period: the constraints
\* ract_begin[act,t0] <= ract_ongoing[act,t0+dur] in which t is t0 or t0 + dur
DurationContiguity_FirstOnly(begin, ongoing, act, t) ==
    t \in range(0, nperiod - duration(act)) =>
        Val(begin[act], t) <= Val(ongoing[act], t)

\* the same for the first periods of an activity that is longer than the
\* business hours of a day
DurationContiguity_WithinHours(begin, ongoing, act, t) ==
    \A dur \in range(0, IF duration(act) > hours THEN hours ELSE duration(act)) :
        \A t0 \in {t, t - dur} \cap range(0, nperiod - duration(act)) :
            (Fixed(t0, t) /\ Fixed(t0 + dur, t)) =>
                Val(begin[act], t0) <= Val(ongoing[act], t0 + dur)

DurationContiguity(begin, ongoing, act, t) ==
    \A dur \in range(0, duration(act)) :
        \A t0 \in {t, t - dur} \cap range(0, nperiod - duration(act)) :
            (Fixed(t0, t) /\ Fixed(t0 + dur, t)) =>
                Val(begin[act], t0) <= Val(ongoing[act], t0 + dur)

\* activity is only between monday to friday 9am-5pm
BusinessHours_BeginOnly(begin, ongoing, act, t) ==
    t \in nonvalid_t => Val(begin[act], t) = 0

BusinessHours(begin, ongoing, act, t) ==
    t \in nonvalid_t =>
        /\ Val(ongoing[act], t) = 0
        /\ Val(begin[act], t) = 0

\* rooms in use at time t are at most the rooms of all buildings
RoomCapacity_LargeOnly(ongoing, t) ==
    quicksum({<<act, Val(ongoing[act], t) * no_large_rooms(act)>> : act \in acts}) <= nlargeroom

RoomCapacity(ongoing, t) ==
    /\ quicksum({<<act, Val(ongoing[act], t) * no_small_rooms(act)>> : act \in acts}) <= nsmallroom
    /\ quicksum({<<act, Val(ongoing[act], t) * no_large_rooms(act)>> : act \in acts}) <= nlargeroom

\* every activity constraint with a variable at period t whose variables are all fixed
ActivityConstraints(begin, ongoing, t) ==
    /\ \A act \in acts :
        /\ BusinessHours(begin, ongoing, act, t)
        /\ DurationContiguity(begin, ongoing, act, t)
        /\ Periodicity(begin, ongoing, act, t)
        /\ WeeklyOccurrence(begin, act, t)
        /\ Precedence(begin, act, t)
    /\ RoomCapacity(ongoing, t)

\* the bound MaxIdle on the assignments the search visits
week_of(t) == (t + w - d) \div w

WithinIdle(ongoing, t) ==
    quicksum({<<act, Cardinality({u \in ongoing[act] : week_of(u) = week_of(t)})>> : act \in acts})
        <= quicksum({<<act, duration(act)>> : act \in acts}) + MaxIdle

-----------------------------------------------------------------------------
(* The battery and power constraints of the builder.  Energies are whole     *)
(* numbers of a unit small enough for every instance; an efficiency is a     *)
(* fraction num / den of two squares.                                        *)

\* x ** 0.5 for a square x
sqrt(x) == CHOOSE r \in 0 .. x : r * r = x

\* max_power_kwh * efficiency ** -0.5
charge_kwh(bat) == (max_power_kwh(bat) * sqrt(efficiency(bat).den)) \div sqrt(efficiency(bat).num)

\* max_power_kwh * efficiency ** 0.5
discharge_kwh(bat) == (max_power_kwh(bat) * sqrt(efficiency(bat).num)) \div sqrt(efficiency(bat).den)

\* lb = 0 of net_power, act_power and bat_level
LowerBounds(np, ap, level) ==
    /\ np >= 0
    /\ ap >= 0
    /\ \A bat \in bats : level[bat] >= 0

\* each battery at start of the month is full
BatteryInitial(level, bat, t) ==
    t = 0 => level[bat] = capacity_kwh(bat)

\* each battery has to be less than the capacity
BatteryCapacity_InitialOnly(level, bat, t) ==
    t = 0 => level[bat] <= capacity_kwh(bat)

BatteryCapacity(level, bat, t) ==
    level[bat] <= capacity_kwh(bat)

\* battery level calculation, for t in range(1, nperiod); before is bat_level[bat,t-1]
BatteryLevel(level, before, charge, discharge, bat, t) ==
    t \in range(1, nperiod) =>
        level[bat] = before[bat] + (charge[bat] * charge_kwh(bat))
                        - (discharge[bat] * discharge_kwh(bat))

\* power from all activity that is happening at each time t
ActPower(ap, ongoing, t) ==
    ap = quicksum({<<act, Val(ongoing[act], t) * load_kwh(act)
                            * (no_small_rooms(act) + no_large_rooms(act))>> : act \in acts})

\* net power calculation
NetPower_FromPeriodOne(np, ap, charge, discharge, t) ==
    np = base_load(t) + ap
            + quicksum({<<bat, IF t \in range(1, nperiod)
                               THEN charge[bat] * charge_kwh(bat)
                                        - discharge[bat] * discharge_kwh(bat)
                               ELSE 0>> : bat \in bats})

NetPower(np, ap, charge, discharge, t) ==
    np = base_load(t) + ap
            + quicksum({<<bat, charge[bat] * charge_kwh(bat)
                                - discharge[bat] * discharge_kwh(bat)>> : bat \in bats})

\* the values a variable can take in an assignment that keeps the constraints,
\* with the values next to them
LevelValues(bat) == (0 - discharge_kwh(bat)) .. (capacity_kwh(bat) + charge_kwh(bat))

MaxOf(q) == LET S == {q[i] : i \in 1 .. Len(q)} IN CHOOSE x \in S : \A y \in S : y <= x

MinOf(q) == LET S == {q[i] : i \in 1 .. Len(q)} IN CHOOSE x \in S : \A y \in S : y >= x

ActPowerValues ==
    0 .. quicksum({<<act, load_kwh(act) * (no_small_rooms(act) + no_large_rooms(act))>> : act \in acts})

NetPowerValues ==
    (MinOf(inst.netload) - quicksum({<<bat, discharge_kwh(bat)>> : bat \in bats}))
        .. (MaxOf(inst.netload) + quicksum({<<act, load_kwh(act) * no_of_rooms(act)>> : act \in acts})
                + quicksum({<<bat, charge_kwh(bat)>> : bat \in bats}))

-----------------------------------------------------------------------------
(* Instances *)

\* efficiency is num / den
Battery(cap, power, num, den) ==
    [capacity_kwh |-> cap, max_power_kwh |-> power, efficiency |-> [num |-> num, den |-> den]]

OneBattery == <<Battery(4, 2, 1, 4)>>

OneBuilding == <<[no_small_rooms |-> 1, no_large_rooms |-> 1]>>

Recur(rooms, size, load, dur, prec) ==
    [no_of_rooms |-> rooms, room_size |-> size, load_kwh |-> load,
     duration |-> dur, precedence_list |-> prec]

\* the forecast table has a row for each of 6 buildings and 6 solar panels
nbulding == 6
nsolar == 6

\* the once-off activities, the 'a' lines of the file; the model has none of
\* their variables, as schedule_basic has none
OneOnce == <<[activity_id |-> 0]>>

\* an instance: the header and the lines of the ppoi file, the shape of the
\* forecast table, and what sections 1 and 2 make of the forecast and of the
\* prices when they succeed.  netload and price are given for the first periods
\* and repeat after them
Instance(bat, rec) ==
    [counts |-> [building |-> 1, solar |-> 1, battery |-> Len(bat),
                 recur_act |-> Len(rec), once_act |-> 1],
     building |-> OneBuilding, battery |-> bat, recur |-> rec, once |-> OneOnce,
     forecast |-> [rows |-> nbulding + nsolar, cols |-> nperiod],
     netload |-> <<1, 2, 0>>, price |-> <<3, 1, 2, 5, 4, 1, 2>>]

SchedInstances ==
    { Instance(OneBattery, <<Recur(1, "S", 1, 2, <<>>)>>),
      Instance(OneBattery, <<Recur(1, "L", 1, 1, <<>>)>>),
      Instance(OneBattery, <<Recur(1, "S", 1, 1, <<>>), Recur(1, "S", 2, 2, <<0>>)>>) }

-----------------------------------------------------------------------------
(* The search over the activity variables *)

InitSched ==
    /\ inst \in SchedInstances
    /\ pc = "optimize"
    /\ fixed = 0
    /\ ract_begin = [act \in acts |-> {}]
    /\ ract_ongoing = [act \in acts |-> {}]
    /\ bat_charge = <<>>
    /\ bat_discharge = <<>>
    /\ bat_level = <<>>
    /\ act_power = 0
    /\ net_power = 0
    /\ runs = <<>>
    /\ NoScript

\* fix ract_begin[act,t] and ract_ongoing[act,t] for every activity, t the next
\* period of the order
BranchActivity ==
    /\ pc = "optimize"
    /\ fixed < nperiod
    /\ \E B \in SUBSET acts, O \in SUBSET acts :
        LET t == order[fixed]
            begin == [act \in acts |->
                        IF act \in B THEN ract_begin[act] \cup {t} ELSE ract_begin[act]]
            ongoing == [act \in acts |->
                        IF act \in O THEN ract_ongoing[act] \cup {t} ELSE ract_ongoing[act]]
        IN  /\ ActivityConstraints(begin, ongoing, t)
            /\ WithinIdle(ongoing, t)
            /\ ract_begin' = begin
            /\ ract_ongoing' = ongoing
    /\ fixed' = fixed + 1
    /\ UNCHANGED <<inst, pc, bat_charge, bat_discharge, bat_level, act_power, net_power, runs, Script>>

\* every variable is fixed and every constraint holds: a feasible assignment
FoundSchedule ==
    /\ pc = "optimize"
    /\ fixed = nperiod
    /\ pc' = "solved"
    /\ UNCHANGED <<inst, fixed, ract_begin, ract_ongoing,
                   bat_charge, bat_discharge, bat_level, act_power, net_power, runs, Script>>

NextSched == BranchActivity \/ FoundSchedule

SpecSched == InitSched /\ [][NextSched]_vars

\* the same search for a single activity that lasts the business hours of a
\* day, one period more, or a week
LongInstances ==
    { Instance(OneBattery, <<Recur(1, "S", 1, hours, <<>>)>>),
      Instance(OneBattery, <<Recur(1, "S", 1, hours + 1, <<>>)>>),
      Instance(OneBattery, <<Recur(1, "L", 1, w, <<>>)>>) }

InitLong ==
    /\ inst \in LongInstances
    /\ pc = "optimize"
    /\ fixed = 0
    /\ ract_begin = [act \in acts |-> {}]
    /\ ract_ongoing = [act \in acts |-> {}]
    /\ bat_charge = <<>>
    /\ bat_discharge = <<>>
    /\ bat_level = <<>>
    /\ act_power = 0
    /\ net_power = 0
    /\ runs = <<>>
    /\ NoScript

SpecLong == InitLong /\ [][NextSched]_vars

-----------------------------------------------------------------------------
(* Assignments of the activity variables for the searches over the battery  *)
(* and power variables                                                      *)

\* the business hours of week 1
week1_valid == valid_t \cap week1_t

\* the periods that lie a whole number of weeks after a period of P
EveryWeek(P) == {t \in range(0, nperiod) : \E k \in 0 .. 4 : (t - k * w) \in P}

\* week 1 of an activity that begins on Monday and is ongoing for as many
\* periods as it lasts: the period where it begins, the periods where it is ongoing
MondayPatterns(act) ==
    {<<b, O>> : b \in range(s, s + hours),
                O \in {Q \in SUBSET week1_valid : Cardinality(Q) = duration(act)}}

\* the assignments that repeat such a week and keep the activity constraints
MondaySchedules ==
    LET repeated ==
            {[begin |-> [act \in acts |-> EveryWeek({f[act][1]})],
              ongoing |-> [act \in acts |-> EveryWeek(f[act][2])]] :
                f \in {g \in [acts -> UNION {MondayPatterns(act) : act \in acts}] :
                            \A act \in acts : g[act] \in MondayPatterns(act)}}
    IN  {x \in repeated :
            \A t \in range(0, nperiod) : ActivityConstraints(x.begin, x.ongoing, t)}

-----------------------------------------------------------------------------
(* The phase 2 model as a whole: its feasible assignments and its objective. *)
(* An assignment x gives every variable of the model: x.begin and x.ongoing  *)
(* per activity and x.charge and x.discharge per battery are the periods     *)
(* where the binary variable is 1; x.level per battery, x.act_power and      *)
(* x.net_power are sequences whose entry t + 1 is the value at period t.     *)

\* the search lets a battery charge or discharge in the first periods only
BatteryHorizon == 2

\* bat_level[bat,t] as the level constraints determine it from the indicators:
\* the capacity at period 0, then what was charged less what was discharged
\* in the periods 1 .. t
levels(charge, discharge, bat) ==
    [i \in 1 .. nperiod |->
        capacity_kwh(bat)
            + (Cardinality(charge[bat] \cap range(1, i)) * charge_kwh(bat))
            - (Cardinality(discharge[bat] \cap range(1, i)) * discharge_kwh(bat))]

At(S, t) == [bat \in bats |-> Val(S[bat], t)]

Entry(q, t) == [bat \in bats |-> q[bat][t + 1]]

\* the assignment with the given binary variables; the continuous variables
\* take the values the equality constraints leave them
Assignment(sched, charge, discharge) ==
    LET act_values == ActPowerValues
        net_values == NetPowerValues
        ap == [i \in 1 .. nperiod |->
                CHOOSE v \in act_values : ActPower(v, sched.ongoing, i - 1)]
        np == [i \in 1 .. nperiod |->
                CHOOSE v \in net_values :
                    NetPower(v, ap[i], At(charge, i - 1), At(discharge, i - 1), i - 1)]
    IN  [begin |-> sched.begin, ongoing |-> sched.ongoing,
         charge |-> charge, discharge |-> discharge,
         level |-> [bat \in bats |-> levels(charge, discharge, bat)],
         act_power |-> ap, net_power |-> np]

\* the same with bat_charge[bat,t] + bat_discharge[bat,t] <= 1 added
PowerConstraints_OneDirection(x) ==
    \A t \in range(0, nperiod) :
        /\ \A bat \in bats :
            /\ BatteryInitial(Entry(x.level, t), bat, t)
            /\ BatteryCapacity(Entry(x.level, t), bat, t)
            /\ BatteryLevel(Entry(x.level, t), Entry(x.level, IF t = 0 THEN 0 ELSE t - 1),
                            At(x.charge, t), At(x.discharge, t), bat, t)
            /\ At(x.charge, t)[bat] + At(x.discharge, t)[bat] <= 1
        /\ ActPower(x.act_power[t + 1], x.ongoing, t)
        /\ NetPower(x.net_power[t + 1], x.act_power[t + 1], At(x.charge, t), At(x.discharge, t), t)
        /\ LowerBounds(x.net_power[t + 1], x.act_power[t + 1], Entry(x.level, t))

\* every battery and power constraint of the builder holds of x
PowerConstraints(x) ==
    \A t \in range(0, nperiod) :
        /\ \A bat \in bats :
            /\ BatteryInitial(Entry(x.level, t), bat, t)
            /\ BatteryCapacity(Entry(x.level, t), bat, t)
            /\ BatteryLevel(Entry(x.level, t), Entry(x.level, IF t = 0 THEN 0 ELSE t - 1),
                            At(x.charge, t), At(x.discharge, t), bat, t)
        /\ ActPower(x.act_power[t + 1], x.ongoing, t)
        /\ NetPower(x.net_power[t + 1], x.act_power[t + 1], At(x.charge, t), At(x.discharge, t), t)
        /\ LowerBounds(x.net_power[t + 1], x.act_power[t + 1], Entry(x.level, t))

\* the assignments the search visits; their activity variables keep the
\* activity constraints
Visited ==
    {Assignment(sched, charge, discharge) :
        sched \in MondaySchedules,
        charge \in [bats -> SUBSET range(0, BatteryHorizon)],
        discharge \in [bats -> SUBSET range(0, BatteryHorizon)]}

\* the sum of the entries a .. b of a sequence
RECURSIVE sum(_, _, _)
sum(q, a, b) ==
    IF a > b THEN 0
    ELSE IF a = b THEN q[a]
    ELSE LET mid == (a + b) \div 2 IN sum(q, a, mid) + sum(q, mid + 1, b)

\* the objective of phase 2 times 4000:
\* quicksum(0.25 * net_power[t] * price_elec[t] / 1000) + 0.005 * max_limit ** 2
Objective(x, max_limit) ==
    sum([i \in 1 .. nperiod |-> x.net_power[i] * price_elec(i - 1)], 1, nperiod)
        + 20 * max_limit * max_limit

\* section 4 of schedule_basic with a cap of max_limit on net_power added
Phase2Model_PeakCapped(max_limit) ==
    LET feasible == {x \in Visited :
                        PowerConstraints(x) /\ \A t \in range(0, nperiod) : x.net_power[t + 1] <= max_limit}
    IN  [feasible |-> feasible,
         objective |-> [x \in feasible |-> Objective(x, max_limit)]]

\* section 4 of schedule_basic: the model built for the max_limit of phase 1
Phase2Model(max_limit) ==
    LET feasible == {x \in Visited : PowerConstraints(x)}
    IN  [feasible |-> feasible,
         objective |-> [x \in feasible |-> Objective(x, max_limit)]]

\* the assignments of least objective
Minimizers(model) ==
    LET values == {model.objective[x] : x \in model.feasible}
    IN  {x \in model.feasible : \A v \in values : model.objective[x] <= v}

-----------------------------------------------------------------------------
(* The search over the battery and power variables of a feasible assignment *)
(* of the activity variables, in increasing order of the period             *)

PowerInstances ==
    { Instance(OneBattery, <<Recur(1, "S", 2, 1, <<>>)>>),
      Instance(<<Battery(2, 1, 1, 1)>>, <<Recur(2, "L", 1, 1, <<>>)>>) }

InitPower ==
    /\ inst \in PowerInstances
    /\ pc = "power"
    /\ fixed = 0
    /\ \E x \in MondaySchedules :
        /\ ract_begin = x.begin
        /\ ract_ongoing = x.ongoing
    /\ bat_charge = [bat \in bats |-> 0]
    /\ bat_discharge = [bat \in bats |-> 0]
    /\ bat_level = [bat \in bats |-> 0]
    /\ act_power = 0
    /\ net_power = 0
    /\ runs = <<>>
    /\ NoScript

\* fix the battery and power variables of period t = fixed
BranchPower ==
    /\ pc = "power"
    /\ fixed < nperiod
    /\ \E charge \in [bats -> {0, 1}], discharge \in [bats -> {0, 1}] :
        \E level \in [bats -> UNION {LevelValues(bat) : bat \in bats}] :
            /\ \A bat \in bats :
                /\ level[bat] \in LevelValues(bat)
                /\ BatteryInitial(level, bat, fixed)
                /\ BatteryCapacity(level, bat, fixed)
                /\ BatteryLevel(level, bat_level, charge, discharge, bat, fixed)
            /\ \E ap \in ActPowerValues :
                /\ ActPower(ap, ract_ongoing, fixed)
                /\ \E np \in NetPowerValues :
                    /\ NetPower(np, ap, charge, discharge, fixed)
                    /\ LowerBounds(np, ap, level)
                    /\ net_power' = np
                    /\ act_power' = ap
                    /\ bat_level' = level
                    /\ bat_charge' = charge
                    /\ bat_discharge' = discharge
    /\ fixed' = fixed + 1
    /\ UNCHANGED <<inst, pc, ract_begin, ract_ongoing, runs, Script>>

\* every variable is fixed and every constraint holds
FoundPower ==
    /\ pc = "power"
    /\ fixed = nperiod
    /\ pc' = "solved"
    /\ UNCHANGED <<inst, fixed, ract_begin, ract_ongoing,
                   bat_charge, bat_discharge, bat_level, act_power, net_power, runs, Script>>

NextPower == BranchPower \/ FoundPower

SpecPower == InitPower /\ [][NextPower]_vars

-----------------------------------------------------------------------------
(* schedule_basic.  runs[r] holds the local variables of run r: pc, the step *)
(* it takes next; m, the Gurobi model at hand with its attributes Status and *)
(* SolCount; sol, the values of the variables of m after a solve, if any;    *)
(* steps, the steps taken so far.                                            *)

\* the values of max_limit are 0 .. MaxPeak
MaxPeak == 2

\* no model built yet
NoModel == [feasible |-> {}, objective |-> <<>>]

Local(at, limit, done) ==
    [pc |-> at, max_limit |-> limit, m |-> NoModel, Status |-> "LOADED", SolCount |-> 0,
     sol |-> {}, cost |-> 0, ppoi_list |-> <<>>, steps |-> done]

Others == <<inst, pc, fixed, ract_begin, ract_ongoing,
            bat_charge, bat_discharge, bat_level, act_power, net_power, Script>>

\* the steps of schedule_basic, in the order of its text
Order == <<"read", "build1", "solve1", "build2", "solve2", "extract">>

\* the place of a step in that order; a run that ended is past all of them
Place(at) ==
    IF \E i \in 1 .. Len(Order) : Order[i] = at
    THEN CHOOSE i \in 1 .. Len(Order) : Order[i] = at
    ELSE Len(Order) + 1

\* the runs go side by side: a run takes a step when the runs before it are
\* past that step and the runs after it have come to it
Turn(r, at) ==
    /\ runs[r].pc = at
    /\ \A q \in DOMAIN runs :
        /\ q < r => Place(runs[q].pc) > Place(at)
        /\ q > r => Place(runs[q].pc) >= Place(at)

\* read_ppoi returns: with no 'r' line, or with no 'a' line, the list of the
\* lines is never made a DataFrame and .loc raises
read_ppoi == Len(inst.recur) > 0 /\ Len(inst.once) > 0

\* netload is computed: forecast.iloc[i] and forecast.iloc[i + 6] exist for i in
\* range(6), and every row has an entry t for t in range(1, 2881)
forecast_read ==
    /\ \A i \in range(0, 6) : i < inst.forecast.rows /\ i + 6 < inst.forecast.rows
    /\ \A t \in range(1, nperiod + 1) : t <= inst.forecast.cols

\* battery_instance.shape exists: with no 'c' line battery_instance is a list
battery_shape == Len(inst.battery) > 0

\* 1. Read in datasets for input, 2. define sets and parameters; an error of
\* any of them ends the run
ReadInputs(r) ==
    /\ Turn(r, "read")
    /\ runs' = [runs EXCEPT ![r].pc = IF read_ppoi /\ forecast_read /\ battery_shape
                                      THEN "build1" ELSE "error",
                            ![r].steps = Append(@, "read")]
    /\ UNCHANGED Others

\* max power: maxpower == gp.max_(net_power[t] for t in range(nperiod))
maxpower(x) == MaxOf(x.net_power)

\* section 3 of schedule_basic up to m.setObjective(maxpower)
Phase1Model ==
    LET feasible == {x \in Visited : PowerConstraints(x)}
    IN  [feasible |-> feasible,
         objective |-> [x \in feasible |-> maxpower(x)]]

BuildPhase1(r) ==
    /\ Turn(r, "build1")
    /\ runs' = [runs EXCEPT ![r].m = Phase1Model, ![r].pc = "solve1",
                            ![r].steps = Append(@, "build1")]
    /\ UNCHANGED Others

\* the same for a model whose net_power has no battery term
RelaxedValues_NoBatteryTerm(model) ==
    {v \in 0 .. MaxPeak :
        \A x \in model.feasible :
            v <= MaxOf([i \in 1 .. nperiod |-> base_load(i - 1) + x.act_power[i]])}

\* the objective values of the relaxed model are not above those of the model
RelaxedValues(model) ==
    {v \in 0 .. MaxPeak : \A x \in model.feasible : v <= model.objective[x]}

\* they end with a value that is proven of nothing
Phase1Optimum_NotProven(r) ==
    /\ Turn(r, "solve1")
    /\ \E v \in 0 .. MaxPeak :
        runs' = [runs EXCEPT ![r].Status = "OPTIMAL", ![r].SolCount = 1, ![r].max_limit = v,
                             ![r].pc = "build2", ![r].steps = Append(@, "solve1")]
    /\ UNCHANGED Others

\* m.presolve(), m.relax(), m.optimize() end with a proven optimum;
\* max_limit = obj.getValue()
Phase1Optimum(r) ==
    /\ Turn(r, "solve1")
    /\ \E v \in RelaxedValues(runs[r].m) :
        runs' = [runs EXCEPT ![r].Status = "OPTIMAL", ![r].SolCount = 1, ![r].max_limit = v,
                             ![r].pc = "build2", ![r].steps = Append(@, "solve1")]
    /\ UNCHANGED Others

\* a second m.optimize() where the first stopped at the time limit
Phase1Incumbent_Retry(r) ==
    /\ Turn(r, "solve1")
    /\ Len(runs[r].steps) < 4
    /\ runs' = [runs EXCEPT ![r].Status = "TIME_LIMIT", ![r].SolCount = 1,
                            ![r].steps = Append(@, "solve1")]
    /\ UNCHANGED Others

\* they end at the time limit with a solution, of any objective value
Phase1Incumbent(r) ==
    /\ Turn(r, "solve1")
    /\ \E v \in 0 .. MaxPeak :
        runs' = [runs EXCEPT ![r].Status = "TIME_LIMIT", ![r].SolCount = 1, ![r].max_limit = v,
                             ![r].pc = "build2", ![r].steps = Append(@, "solve1")]
    /\ UNCHANGED Others

\* they end with no solution and the run goes on to section 4 all the same
Phase1NoSolution_GoesOn(r) ==
    /\ Turn(r, "solve1")
    /\ \E st \in {"TIME_LIMIT"} \cup (IF runs[r].m.feasible = {} THEN {"INFEASIBLE"} ELSE {}) :
        runs' = [runs EXCEPT ![r].Status = st, ![r].SolCount = 0,
                             ![r].pc = "build2", ![r].steps = Append(@, "solve1")]
    /\ UNCHANGED Others

\* they end with no solution: obj.getValue() raises
Phase1NoSolution(r) ==
    /\ Turn(r, "solve1")
    /\ \E st \in {"TIME_LIMIT"} \cup (IF runs[r].m.feasible = {} THEN {"INFEASIBLE"} ELSE {}) :
        runs' = [runs EXCEPT ![r].Status = st, ![r].SolCount = 0,
                             ![r].pc = "error", ![r].steps = Append(@, "solve1")]
    /\ UNCHANGED Others

\* 4. m = gp.Model(...) up to m.setObjective(...)
BuildPhase2(r) ==
    /\ Turn(r, "build2")
    /\ runs' = [runs EXCEPT ![r].m = Phase2Model(runs[r].max_limit),
                            ![r].Status = "LOADED", ![r].SolCount = 0,
                            ![r].pc = "solve2", ![r].steps = Append(@, "build2")]
    /\ UNCHANGED Others

\* m.optimize() ends with a proven optimum; cost = m.getObjective().getValue()
SolvedToOptimum(r) ==
    /\ Turn(r, "solve2")
    /\ \E x \in Minimizers(runs[r].m) :
        runs' = [runs EXCEPT ![r].Status = "OPTIMAL", ![r].SolCount = 1, ![r].sol = {x},
                             ![r].cost = runs[r].m.objective[x],
                             ![r].pc = "extract", ![r].steps = Append(@, "solve2")]
    /\ UNCHANGED Others

\* the runs differ in max_limit only: where an earlier run stopped at an
\* incumbent that is feasible in run r, run r stops at the same one
SameIncumbent(r, x) ==
    \A q \in DOMAIN runs :
        (q < r /\ runs[q].Status = "TIME_LIMIT" /\ runs[q].sol # {}
            /\ runs[q].sol \subseteq runs[r].m.feasible) => x \in runs[q].sol

\* m.optimize() ends at the time limit with an incumbent, any feasible assignment
StoppedWithIncumbent(r) ==
    /\ Turn(r, "solve2")
    /\ \E x \in runs[r].m.feasible :
        /\ SameIncumbent(r, x)
        /\ runs' = [runs EXCEPT ![r].Status = "TIME_LIMIT", ![r].SolCount = 1, ![r].sol = {x},
                                ![r].cost = runs[r].m.objective[x],
                                ![r].pc = "extract", ![r].steps = Append(@, "solve2")]
    /\ UNCHANGED Others

\* m.optimize() ends with no solution: getValue() raises
NoSolution(r) ==
    /\ Turn(r, "solve2")
    /\ \E st \in {"TIME_LIMIT"} \cup (IF runs[r].m.feasible = {} THEN {"INFEASIBLE"} ELSE {}) :
        runs' = [runs EXCEPT ![r].Status = st, ![r].SolCount = 0,
                             ![r].pc = "error", ![r].steps = Append(@, "solve2")]
    /\ UNCHANGED Others

\* the tuples of S as a list, in the order of the nested loops that emit them
RECURSIVE InLoopOrder(_)
InLoopOrder(S) ==
    IF S = {} THEN <<>>
    ELSE LET first == CHOOSE y \in S : \A z \in S :
                        \/ y[1] < z[1]
                        \/ y[1] = z[1] /\ y[2] < z[2]
                        \/ y[1] = z[1] /\ y[2] = z[2] /\ y[3] <= z[3]
         IN  <<first>> \o InLoopOrder(S \ {first})

\* a battery line 2 is written only where no line 0 was: elif discharge == 1.0
Gather_ChargeFirst(x) ==
    LET line_header == <<"ppoi", inst.counts.building, inst.counts.solar, inst.counts.battery,
                         inst.counts.recur_act, inst.counts.once_act>>
        line_sched == <<"sched", inst.counts.recur_act, 0>>
        starts == InLoopOrder(UNION {{<<t, r, 0>> : t \in x.begin[r]} : r \in acts})
        events == InLoopOrder(UNION {{<<t, b, 0>> : t \in x.charge[b]}
                                        \cup {<<t, b, 2>> : t \in x.discharge[b] \ x.charge[b]} : b \in bats})
    IN  <<line_header, line_sched>>
            \o [i \in 1 .. Len(starts) |->
                    <<"r", starts[i][2], starts[i][1], no_of_rooms(starts[i][2])>>]
            \o [i \in 1 .. Len(events) |-> <<"b", events[i][2], events[i][1], events[i][3]>>]

\* one loop over the periods writes the activity lines and the battery lines
Gather_ByPeriod(x) ==
    LET line_header == <<"ppoi", inst.counts.building, inst.counts.solar, inst.counts.battery,
                         inst.counts.recur_act, inst.counts.once_act>>
        line_sched == <<"sched", inst.counts.recur_act, 0>>
        lines == InLoopOrder(UNION {{<<t, r, 1>> : t \in x.begin[r]} : r \in acts}
                    \cup UNION {{<<t, b + nreccur, 2>> : t \in x.charge[b]}
                                    \cup {<<t, b + nreccur, 3>> : t \in x.discharge[b]} : b \in bats})
    IN  <<line_header, line_sched>>
            \o [i \in 1 .. Len(lines) |->
                    IF lines[i][3] = 1
                    THEN <<"r", lines[i][2], lines[i][1], no_of_rooms(lines[i][2])>>
                    ELSE <<"b", lines[i][2] - nreccur, lines[i][1], 2 * (lines[i][3] - 2)>>]

\* 5. Gather results and return
Gather(x) ==
    LET line_header == <<"ppoi", inst.counts.building, inst.counts.solar, inst.counts.battery,
                         inst.counts.recur_act, inst.counts.once_act>>
        line_sched == <<"sched", inst.counts.recur_act, 0>>
        starts == InLoopOrder(UNION {{<<t, r, 0>> : t \in x.begin[r]} : r \in acts})
        events == InLoopOrder(UNION {{<<t, b, 0>> : t \in x.charge[b]}
                                        \cup {<<t, b, 2>> : t \in x.discharge[b]} : b \in bats})
    IN  <<line_header, line_sched>>
            \o [i \in 1 .. Len(starts) |->
                    <<"r", starts[i][2], starts[i][1], no_of_rooms(starts[i][2])>>]
            \o [i \in 1 .. Len(events) |-> <<"b", events[i][2], events[i][1], events[i][3]>>]

\* the lines are gathered from some feasible assignment, not from the solution
Extract_AnyFeasible(r) ==
    /\ Turn(r, "extract")
    /\ \E x \in runs[r].m.feasible :
        runs' = [runs EXCEPT ![r].ppoi_list = Gather(x),
                             ![r].pc = "done", ![r].steps = Append(@, "extract")]
    /\ UNCHANGED Others

Extract(r) ==
    /\ Turn(r, "extract")
    /\ \E x \in runs[r].sol :
        runs' = [runs EXCEPT ![r].ppoi_list = Gather(x),
                             ![r].pc = "done", ![r].steps = Append(@, "extract")]
    /\ UNCHANGED Others

-----------------------------------------------------------------------------
(* One run of schedule_basic *)

RunInstances ==
    { [Instance(OneBattery, <<Recur(1, "S", 1, 1, <<>>)>>) EXCEPT !.netload = <<0, 1, 0>>],
      [Instance(<<Battery(2, 1, 1, 1)>>, <<Recur(1, "L", 1, 1, <<>>)>>) EXCEPT !.netload = <<1, 1, 0, 0>>] }

Idle ==
    /\ fixed = 0
    /\ ract_begin = [act \in acts |-> {}]
    /\ ract_ongoing = [act \in acts |-> {}]
    /\ bat_charge = <<>>
    /\ bat_discharge = <<>>
    /\ bat_level = <<>>
    /\ act_power = 0
    /\ net_power = 0

InitRun ==
    /\ inst \in RunInstances
    /\ pc = "schedule_basic"
    /\ Idle
    /\ NoScript
    /\ runs = <<Local("read", 0, <<>>)>>

NextRun ==
    \/ \E r \in DOMAIN runs : ReadInputs(r)
    \/ \E r \in DOMAIN runs : BuildPhase1(r)
    \/ \E r \in DOMAIN runs : Phase1Optimum(r)
    \/ \E r \in DOMAIN runs : Phase1Incumbent(r)
    \/ \E r \in DOMAIN runs : Phase1NoSolution(r)
    \/ \E r \in DOMAIN runs : BuildPhase2(r)
    \/ \E r \in DOMAIN runs : SolvedToOptimum(r)
    \/ \E r \in DOMAIN runs : StoppedWithIncumbent(r)
    \/ \E r \in DOMAIN runs : NoSolution(r)
    \/ \E r \in DOMAIN runs : Extract(r)

SpecRun == InitRun /\ [][NextRun]_vars

-----------------------------------------------------------------------------
(* Sections 1 to 3 of schedule_basic on instances and forecast tables of any *)
(* shape                                                                     *)

\* no battery, no recurring activity, no once-off activity; constant load and price
EmptyInstance ==
    [Instance(<<>>, <<>>) EXCEPT !.once = <<>>, !.counts.once_act = 0,
                                 !.netload = <<2>>, !.price = <<3>>]

ReadInstances ==
    {[i EXCEPT !.forecast = [rows |-> n, cols |-> c]] :
        i \in RunInstances \cup {EmptyInstance},
        n \in 0 .. (nbulding + nsolar + 1),
        c \in {nperiod - 1, nperiod, nperiod + 1}}

InitRead ==
    /\ inst \in ReadInstances
    /\ pc = "sections 1 to 3"
    /\ Idle
    /\ NoScript
    /\ runs = <<Local("read", 0, <<>>)>>

NextRead ==
    \/ \E r \in DOMAIN runs : ReadInputs(r)
    \/ \E r \in DOMAIN runs : BuildPhase1(r)

SpecRead == InitRead /\ [][NextRead]_vars

-----------------------------------------------------------------------------
(* Phase 1 alone, on instances whose base load is 0 but for one period, and  *)
(* on one of constant base load whose battery holds what it discharges in    *)
(* one period                                                                *)

Phase1Instances ==
    {[Instance(bat, <<Recur(1, "S", 1, 1, <<>>)>>)
            EXCEPT !.netload = [i \in 1 .. nperiod |-> IF i = p THEN h ELSE 0]] :
        bat \in {OneBattery, <<Battery(8, 2, 1, 1)>>},
        p \in 1 .. 4,
        h \in 0 .. 2}
    \cup {[Instance(<<Battery(1, 1, 1, 1)>>, <<Recur(1, "S", 1, 1, <<>>)>>) EXCEPT !.netload = <<1>>]}

InitPhase1 ==
    /\ inst \in Phase1Instances
    /\ pc = "phase 1"
    /\ Idle
    /\ NoScript
    /\ runs = <<Local("build1", 0, <<"read">>)>>

NextPhase1 ==
    \/ \E r \in DOMAIN runs : BuildPhase1(r)
    \/ \E r \in DOMAIN runs : Phase1Optimum(r)
    \/ \E r \in DOMAIN runs : Phase1Incumbent(r)
    \/ \E r \in DOMAIN runs : Phase1NoSolution(r)

SpecPhase1 == InitPhase1 /\ [][NextPhase1]_vars

-----------------------------------------------------------------------------
(* The rows of optimData, one for each time stamp; fixed is the time stamp   *)
(* of the row made last                                                      *)

InitData ==
    /\ inst \in RunInstances
    /\ pc = "optimData"
    /\ Idle
    /\ NoScript
    /\ runs = <<>>

Timestamp ==
    /\ pc = "optimData"
    /\ fixed + 1 < nperiod
    /\ fixed' = fixed + 1
    /\ UNCHANGED <<inst, pc, ract_begin, ract_ongoing, bat_charge, bat_discharge,
                   bat_level, act_power, net_power, runs, Script>>

NextData == Timestamp

SpecData == InitData /\ [][NextData]_vars

-----------------------------------------------------------------------------
(* pipeline.py from the loop over the problem instance files on.  pc is the  *)
(* place in the script; runs holds the local variables of the call of        *)
(* schedule_basic at hand.                                                   *)

\* the list files, cut to its first two entries
files == <<"phase2_instance_small_0.txt", "phase2_instance_small_1.txt">>

\* what a file of rawdata/ can hold: an instance with one feasible assignment,
\* whose battery has to charge in period 0 to take up the surplus of the solar
\* panels, and an instance with none, whose activity needs two small rooms
\* where the buildings have one
PipeInstances ==
    { [Instance(OneBattery, <<Recur(1, "S", 1, hours, <<>>)>>)
            EXCEPT !.netload = [i \in 1 .. nperiod |-> IF i = 1 THEN 0 - 4 ELSE 0]],
      Instance(OneBattery, <<Recur(2, "S", 1, 1, <<>>)>>) }

\* a path of final_output/ with no file, and one with the file of an earlier run
NoFile == [exists |-> FALSE, lines |-> <<>>]
OldFile == [exists |-> TRUE, lines |-> << <<"ppoi", 1, 1, 1, 1, 1>> >>]

InitPipe ==
    /\ inst \in PipeInstances
    /\ pc = "for file in files"
    /\ Idle
    /\ runs = <<>>
    /\ file = 1
    /\ costs = <<>>
    /\ final_output \in [1 .. Len(files) -> {NoFile, OldFile}]

Solver == <<fixed, ract_begin, ract_ongoing, bat_charge, bat_discharge, bat_level, act_power, net_power>>

\* cost, ppoi_list = optimiser.schedule_basic("rawdata/" + str(file), ...): the call
Call ==
    /\ pc = "for file in files"
    /\ file <= Len(files)
    /\ runs' = <<Local("read", 0, <<>>)>>
    /\ pc' = "schedule_basic"
    /\ UNCHANGED <<inst, Solver, Script>>

\* schedule_basic returns; costs.append(cost)
Return ==
    /\ pc = "schedule_basic"
    /\ runs[1].pc = "done"
    /\ costs' = Append(costs, runs[1].cost)
    /\ pc' = "open"
    /\ UNCHANGED <<inst, Solver, runs, file, final_output>>

\* schedule_basic raises; the loop catches it and goes on to the next file
Raise_Continue ==
    /\ pc = "schedule_basic"
    /\ runs[1].pc = "error"
    /\ file' = file + 1
    /\ inst' \in PipeInstances
    /\ pc' = "for file in files"
    /\ UNCHANGED <<Solver, runs, costs, final_output>>

\* schedule_basic raises; nothing in pipeline.py catches it
Raise ==
    /\ pc = "schedule_basic"
    /\ runs[1].pc = "error"
    /\ pc' = "error"
    /\ UNCHANGED <<inst, Solver, runs, Script>>

\* f = open(ppoi_path, "w"): whatever the path held is lost
Open_Truncate ==
    /\ pc = "open"
    /\ final_output' = [final_output EXCEPT ![file] = [exists |-> TRUE, lines |-> <<>>]]
    /\ pc' = "write"
    /\ UNCHANGED <<inst, Solver, runs, file, costs>>

\* f = open(ppoi_path, "x"): FileExistsError where the path exists
Open ==
    /\ pc = "open"
    /\ IF final_output[file].exists
       THEN /\ pc' = "error"
            /\ UNCHANGED final_output
       ELSE /\ final_output' = [final_output EXCEPT ![file] = [exists |-> TRUE, lines |-> <<>>]]
            /\ pc' = "write"
    /\ UNCHANGED <<inst, Solver, runs, file, costs>>

\* for line in ppoi_list: f.write("%s\n" % line); f.close(); the next file,
\* whose instance is any
Save ==
    /\ pc = "write"
    /\ final_output' = [final_output EXCEPT ![file].lines = runs[1].ppoi_list]
    /\ file' = file + 1
    /\ inst' \in PipeInstances
    /\ pc' = "for file in files"
    /\ UNCHANGED <<Solver, runs, costs>>

\* the loop ends
EndPipeline ==
    /\ pc = "for file in files"
    /\ file > Len(files)
    /\ pc' = "ENDING PIPELINE"
    /\ UNCHANGED <<inst, Solver, runs, Script>>

NextPipe ==
    \/ Call
    \/ \E r \in DOMAIN runs : pc = "schedule_basic" /\ ReadInputs(r)
    \/ \E r \in DOMAIN runs : pc = "schedule_basic" /\ BuildPhase1(r)
    \/ \E r \in DOMAIN runs : pc = "schedule_basic" /\ Phase1Optimum(r)
    \/ \E r \in DOMAIN runs : pc = "schedule_basic" /\ Phase1Incumbent(r)
    \/ \E r \in DOMAIN runs : pc = "schedule_basic" /\ Phase1NoSolution(r)
    \/ \E r \in DOMAIN runs : pc = "schedule_basic" /\ BuildPhase2(r)
    \/ \E r \in DOMAIN runs : pc = "schedule_basic" /\ SolvedToOptimum(r)
    \/ \E r \in DOMAIN runs : pc = "schedule_basic" /\ StoppedWithIncumbent(r)
    \/ \E r \in DOMAIN runs : pc = "schedule_basic" /\ NoSolution(r)
    \/ \E r \in DOMAIN runs : pc = "schedule_basic" /\ Extract(r)
    \/ Return
    \/ Raise
    \/ Open
    \/ Save
    \/ EndPipeline

SpecPipe == InitPipe /\ [][NextPipe]_vars

-----------------------------------------------------------------------------
(* Two runs of phase 2 on one instance, side by side, each with the          *)
(* max_limit it is handed; run 2 takes each step after run 1                 *)

InitPeak ==
    /\ inst \in RunInstances
    /\ pc = "phase 2"
    /\ Idle
    /\ NoScript
    /\ \E limits \in [{1, 2} -> 0 .. MaxPeak] :
        /\ limits[1] > limits[2]
        /\ runs = [r \in {1, 2} |-> Local("build2", limits[r], <<"read", "build1", "solve1">>)]

NextPeak ==
    \/ \E r \in DOMAIN runs : BuildPhase2(r)
    \/ \E r \in DOMAIN runs : SolvedToOptimum(r)
    \/ \E r \in DOMAIN runs : StoppedWithIncumbent(r)
    \/ \E r \in DOMAIN runs : NoSolution(r)

SpecPeak == InitPeak /\ [][NextPeak]_vars

-----------------------------------------------------------------------------
(* Claims about the feasible assignments of the activity variables *)

Solved == pc = "solved"

\* the k-th full week, written out: 96..767, 768..1439, 1440..2111, 2112..2783
\* for d = 96
FullWeek(k) == (d + (k - 1) * 7 * d) .. (d + k * 7 * d - 1)

\* C1: in every feasible assignment each recurring activity has exactly one
\* ract_begin equal to 1 inside each of the four full weeks
C1_OneStartPerFullWeek ==
    Solved =>
        \A act \in acts : \A k \in 1 .. 4 :
            Cardinality({t \in FullWeek(k) : Val(ract_begin[act], t) = 1}) = 1

C1_Witness ==
    /\ Solved
    /\ nreccur = 2
    /\ \A act \in acts : \E t \in FullWeek(4) : t \in ract_begin[act]

\* C2: in every feasible assignment ract_begin and ract_ongoing have the same
\* value at t and at t + 672 for every t with 0 <= t and t + 672 <= 2879,
\* the lead-in periods included; stated of every pair of periods the search
\* has fixed, which in a feasible assignment is every pair
C2_Periodic ==
    \A act \in acts : \A t \in 0 .. (30 * d - 1 - 7 * d) :
        (rank[t] < fixed /\ rank[t + 7 * d] < fixed) =>
            /\ Val(ract_begin[act], t) = Val(ract_begin[act], t + 7 * d)
            /\ Val(ract_ongoing[act], t) = Val(ract_ongoing[act], t + 7 * d)

C2_Witness ==
    /\ Solved
    /\ \E act \in acts : \E t \in FullWeek(1) :
        /\ t \in ract_begin[act] /\ (t + 7 * d) \in ract_begin[act]
        /\ \E u \in ract_ongoing[act] : u \notin ract_begin[act] /\ (u + 7 * d) \in ract_ongoing[act]

\* C3: in the integral solution every predecessor of an activity starts, inside
\* week 1 and inside each of the full weeks 2, 3 and 4, no later than the activity
C3_PrecedenceOrder ==
    Solved =>
        \A act \in acts : \A i \in 1 .. Len(precedence_list(act)) : \A k \in 1 .. 4 :
            \A ta \in FullWeek(k) : \A tp \in FullWeek(k) :
                (ta \in ract_begin[act] /\ tp \in ract_begin[precedence_list(act)[i]])
                    => tp <= ta

C3_Witness ==
    /\ Solved
    /\ \E act \in acts :
        /\ Len(precedence_list(act)) > 0
        /\ \E ta \in FullWeek(3) : \E tp \in FullWeek(3) :
            /\ ta \in ract_begin[act]
            /\ tp \in ract_begin[precedence_list(act)[1]]
            /\ tp < ta

\* C4: in every feasible assignment an activity that starts at t is ongoing at
\* every period t + dd with 0 <= dd < duration, and all of them lie on the grid
C4_Contiguous ==
    Solved =>
        \A act \in acts : \A t \in 0 .. (30 * d - 1) :
            Val(ract_begin[act], t) = 1 =>
                \A dd \in 0 .. (duration(act) - 1) :
                    /\ t + dd <= 30 * d - 1
                    /\ Val(ract_ongoing[act], t + dd) = 1

C4_Witness ==
    /\ Solved
    /\ \E act \in acts :
        /\ duration(act) = 2
        /\ \E t \in FullWeek(4) : t \in ract_begin[act] /\ (t + 1) \in ract_ongoing[act]
        /\ \E t \in ract_begin[act] : t >= d + 4 * 7 * d

\* C6: in every feasible assignment, at every period, the ongoing activities use
\* at most the small rooms and at most the large rooms of all buildings
C6_RoomsWithinTotals ==
    Solved =>
        \A t \in 0 .. (30 * d - 1) :
            /\ quicksum({<<act, no_of_rooms(act)>> :
                    act \in {a \in acts : t \in ract_ongoing[a] /\ inst.recur[a + 1].room_size = "S"}})
                 <= quicksum({<<i, inst.building[i].no_small_rooms>> : i \in 1 .. Len(inst.building)})
            /\ quicksum({<<act, no_of_rooms(act)>> :
                    act \in {a \in acts : t \in ract_ongoing[a] /\ inst.recur[a + 1].room_size # "S"}})
                 <= quicksum({<<i, inst.building[i].no_large_rooms>> : i \in 1 .. Len(inst.building)})

C6_Witness ==
    /\ Solved
    /\ nreccur = 2
    /\ \A act \in acts : inst.recur[act + 1].room_size = "S" /\ ract_ongoing[act] # {}
    /\ nsmallroom = 1

\* C7: ract_begin and ract_ongoing are 0 at every period of nonvalid_t, so every
\* start and every occupied period lies on Monday to Friday between 9am and 5pm
C7_BusinessHoursOnly ==
    \A act \in acts :
        /\ \A t \in nonvalid_t : Val(ract_begin[act], t) = 0 /\ Val(ract_ongoing[act], t) = 0
        /\ \A t \in ract_begin[act] \cup ract_ongoing[act] :
            /\ dayofweek(t) \in 1 .. 5
            /\ timeofday(t) >= nine_am
            /\ timeofday(t) < nine_am + hours

C7_Witness ==
    /\ Solved
    /\ \E act \in acts : \E t \in ract_ongoing[act] : t \notin ract_begin[act]

-----------------------------------------------------------------------------
(* Claims about the battery and power variables.  A state of the search holds *)
(* the variables of the period fixed last, period fixed - 1.                  *)

\* C5: every battery level of a feasible assignment is at least 0 and at most
\* the capacity of the battery, and the level of period 0 is the capacity,
\* whatever the charge and discharge indicators are
C5_LevelWithinCapacity ==
    fixed >= 1 =>
        \A bat \in bats :
            /\ 0 <= bat_level[bat]
            /\ bat_level[bat] <= inst.battery[bat + 1].capacity_kwh
            /\ fixed = 1 => bat_level[bat] = inst.battery[bat + 1].capacity_kwh

C5_Witness ==
    /\ pc = "solved"
    /\ \E bat \in bats :
        /\ bat_charge[bat] = 1
        /\ bat_discharge[bat] = 0
        /\ bat_level[bat] = inst.battery[bat + 1].capacity_kwh

\* C8: at every period, period 0 included, net_power is the base load plus the
\* load of the ongoing activities, load times number of rooms each, plus what
\* the batteries charge minus what they discharge
C8_NetPowerEquation ==
    fixed >= 1 =>
        LET t == fixed - 1
            activityPower ==
                quicksum({<<act, Val(ract_ongoing[act], t) * load_kwh(act) * no_of_rooms(act)>> :
                            act \in acts})
            batteryNet ==
                quicksum({<<bat, bat_charge[bat] * charge_kwh(bat)
                                    - bat_discharge[bat] * discharge_kwh(bat)>> : bat \in bats})
        IN  /\ act_power = activityPower
            /\ net_power = base_load(t) + activityPower + batteryNet

C8_Witness ==
    /\ fixed = 1
    /\ \E bat \in bats : bat_charge[bat] = 1 /\ bat_discharge[bat] = 0
    /\ net_power > base_load(0)

-----------------------------------------------------------------------------
(* Claims about the two runs of phase 2 *)

-----------------------------------------------------------------------------
(* Claims about a run of schedule_basic *)

StepsOfTheClaim ==
    <<"read", "build1", "solve1", "build2", "solve2", "extract">>

\* C9: the steps of a run are taken in the order read, build phase 1, solve
\* phase 1, build phase 2, solve phase 2, extract, each at most once; after the
\* solve of phase 1 the run goes on to build phase 2 exactly when the solve left
\* an objective value, be it a proven optimum or the incumbent at the time
\* limit, and fails otherwise; and every step of a run adds one step to the list
C9_StepsInOrder ==
    /\ [](\A r \in DOMAIN runs :
            /\ Len(runs[r].steps) <= Len(StepsOfTheClaim)
            /\ \A i \in 1 .. Len(runs[r].steps) : runs[r].steps[i] = StepsOfTheClaim[i]
            /\ Len(runs[r].steps) = 3 =>
                /\ runs[r].SolCount = 1 <=> runs[r].pc = "build2"
                /\ runs[r].SolCount = 0 <=> runs[r].pc = "error"
                /\ runs[r].Status \in {"OPTIMAL", "TIME_LIMIT", "INFEASIBLE"}
            /\ runs[r].pc = "done" => runs[r].steps = StepsOfTheClaim)
    /\ [][\A r \in DOMAIN runs :
            runs'[r] # runs[r] =>
                /\ Len(runs'[r].steps) = Len(runs[r].steps) + 1
                /\ runs[r].pc = StepsOfTheClaim[Len(runs'[r].steps)]]_vars

C9_Witness ==
    /\ pc = "schedule_basic"
    /\ runs[1].steps = <<"read", "build1", "solve1">>
    /\ runs[1].Status = "TIME_LIMIT"
    /\ runs[1].SolCount = 1
    /\ runs[1].pc = "build2"

-----------------------------------------------------------------------------
(* Claims about what a run of schedule_basic returns.  A line of ppoi_list   *)
(* is a tuple: <<"r", activity, period, rooms>> or <<"b", battery, period,   *)
(* code>>.                                                                   *)

\* the lines of a document that begin with tag
Lines(doc, tag) == {doc[i] : i \in {j \in 1 .. Len(doc) : doc[j][1] = tag}}

\* C11: the cost a run returns is the objective of phase 2 at the assignment the
\* solve ended with: the sum over all periods of 0.25 * net_power * price / 1000
\* plus 0.005 * max_limit ^ 2 (both times 4000 here); it is the least over the
\* feasible assignments when the status is OPTIMAL; and the lines of the
\* returned document are taken from that same assignment
C11_CostOfReturnedAssignment ==
    \A r \in DOMAIN runs :
        runs[r].pc \in {"extract", "done"} =>
            \E x \in runs[r].sol :
                /\ x \in runs[r].m.feasible
                /\ runs[r].cost
                     = sum([i \in 1 .. 30 * d |-> x.net_power[i] * inst.price[((i - 1) % Len(inst.price)) + 1]],
                           1, 30 * d)
                        + 20 * runs[r].max_limit * runs[r].max_limit
                /\ runs[r].Status = "OPTIMAL" =>
                    \A y \in runs[r].m.feasible : runs[r].m.objective[y] >= runs[r].cost
                /\ runs[r].pc = "done" =>
                    /\ {<<l[2], l[3]>> : l \in Lines(runs[r].ppoi_list, "r")}
                         = UNION {{<<a, t>> : t \in x.begin[a]} : a \in DOMAIN x.begin}
                    /\ {<<l[2], l[3], l[4]>> : l \in Lines(runs[r].ppoi_list, "b")}
                         = UNION {{<<b, t, 0>> : t \in x.charge[b]} \cup {<<b, t, 2>> : t \in x.discharge[b]} :
                                    b \in DOMAIN x.charge}

C11_Witness ==
    /\ pc = "schedule_basic"
    /\ runs[1].pc = "done"
    /\ runs[1].Status = "TIME_LIMIT"
    /\ runs[1].max_limit > 0
    /\ \E y \in runs[1].m.feasible : runs[1].m.objective[y] < runs[1].cost
    /\ Lines(runs[1].ppoi_list, "b") # {}

-----------------------------------------------------------------------------
(* Claims about sections 1 and 2 of schedule_basic *)

\* C17: a run fails in section 1, and builds no model, whenever the forecast
\* table has not exactly 12 rows or has not exactly as many columns as there are
\* periods, be it that rows or columns are missing or that there are more
C17_ShapeMismatchFails ==
    \A r \in DOMAIN runs :
        (runs[r].steps # <<>>
            /\ \/ inst.forecast.rows # 12
               \/ inst.forecast.cols # 30 * d)
            => runs[r].pc = "error" /\ runs[r].m = NoModel

\* C18: on an instance with no battery and no recurring activity, with constant
\* base load L and constant price P, a run does not fail, and it returns the cost
\* 2880 * 0.25 * L * P / 1000, which is (30 * d) * L * P in the unit of the model,
\* and a document of the header line and the schedule-size line only
C18_EmptyInstanceCost ==
    \A r \in DOMAIN runs :
        ( /\ Len(inst.battery) = 0
          /\ Len(inst.recur) = 0
          /\ inst.forecast.rows = 12 /\ inst.forecast.cols = 30 * d
          /\ \E L \in 0 .. 3 : \A i \in 1 .. Len(inst.netload) : inst.netload[i] = L
          /\ \E P \in 0 .. 3 : \A i \in 1 .. Len(inst.price) : inst.price[i] = P )
        => /\ runs[r].pc # "error"
           /\ runs[r].pc = "done" =>
                /\ runs[r].cost = (30 * d) * inst.netload[1] * inst.price[1]
                /\ Len(runs[r].ppoi_list) = 2

-----------------------------------------------------------------------------
(* Claims about errors, in schedule_basic and in the loop of pipeline.py *)

\* C12: where a solve of either phase ends with no solution, the solver having
\* proved infeasibility or run out of time, the run ends in an error there: it
\* returns no list of lines, and from then on nothing of it changes, so phase 2
\* is not started after a failure of phase 1 and no solve is tried again; the
\* pipeline ends with that error, having appended no cost and written no file
\* for that instance
C12_NoSolutionIsAnError ==
    /\ [](\A r \in DOMAIN runs :
            ( /\ runs[r].steps # <<>>
              /\ runs[r].steps[Len(runs[r].steps)] \in {"solve1", "solve2"}
              /\ runs[r].SolCount = 0 )
            => /\ runs[r].Status \in {"INFEASIBLE", "TIME_LIMIT"}
               /\ runs[r].pc = "error"
               /\ runs[r].ppoi_list = <<>>
               /\ Len(costs) = file - 1
               /\ final_output[file] \in {NoFile, OldFile})
    /\ [][\A r \in DOMAIN runs :
            runs[r].pc = "error" =>
                /\ runs' = runs
                /\ pc' = "error"
                /\ UNCHANGED <<file, costs, final_output>>]_vars

C12_Witness ==
    /\ pc = "error"
    /\ file = 2
    /\ runs[1].Status = "INFEASIBLE"
    /\ runs[1].steps = <<"read", "build1", "solve1", "build2", "solve2">>
    /\ Len(final_output[1].lines) > 2
    /\ final_output[2] = NoFile

\* C16: where the path of the output file exists, opening it fails and the
\* pipeline ends with that error: the file keeps its lines, no line is written
\* to it, and nothing is done after the error.  A file that exists changes only
\* when the pipeline writes the lines of the file it has just created
C16_WriteConflict ==
    /\ [][(pc = "open" /\ final_output[file].exists)
            => /\ pc' = "error"
               /\ UNCHANGED <<file, costs, final_output, runs>>]_vars
    /\ [][pc # "error"]_vars
    /\ [][\A k \in DOMAIN final_output :
            (final_output[k].exists /\ final_output'[k] # final_output[k])
                => k = file /\ pc = "write" /\ final_output[k].lines = <<>>]_vars

C16_Witness ==
    /\ pc = "error"
    /\ file = 2
    /\ runs[1].pc = "done"
    /\ Len(runs[1].ppoi_list) > 2
    /\ final_output[2] = OldFile
    /\ Len(final_output[1].lines) > 2

-----------------------------------------------------------------------------
(* Claims about the document a run returns *)

\* the places of a document that hold the given line
Places(doc, line) == {i \in 1 .. Len(doc) : doc[i] = line}

\* C13: the lines after the first two are those of the solved assignment: one
\* line r, with the number of rooms of the activity, for every activity and
\* period where ract_begin is 1 and no other line r; one line b with code 0
\* where bat_charge is 1, one with code 2 where bat_discharge is 1, and no line b
\* for a battery and period where both are 0
C13_BodyIsTheAssignment ==
    \A r \in DOMAIN runs :
        runs[r].pc = "done" =>
            \E x \in runs[r].sol :
                LET doc == runs[r].ppoi_list
                IN  /\ \A a \in DOMAIN x.begin : \A t \in 0 .. (30 * d - 1) :
                        Cardinality(Places(doc, <<"r", a, t, inst.recur[a + 1].no_of_rooms>>))
                            = (IF t \in x.begin[a] THEN 1 ELSE 0)
                    /\ \A l \in Lines(doc, "r") :
                        /\ l[2] \in DOMAIN x.begin
                        /\ l[3] \in x.begin[l[2]]
                        /\ l[4] = inst.recur[l[2] + 1].no_of_rooms
                    /\ \A b \in DOMAIN x.charge : \A t \in 0 .. (30 * d - 1) :
                        /\ Cardinality(Places(doc, <<"b", b, t, 0>>))
                            = (IF t \in x.charge[b] THEN 1 ELSE 0)
                        /\ Cardinality(Places(doc, <<"b", b, t, 2>>))
                            = (IF t \in x.discharge[b] THEN 1 ELSE 0)
                        /\ (t \notin x.charge[b] /\ t \notin x.discharge[b])
                            => \A l \in Lines(doc, "b") : ~(l[2] = b /\ l[3] = t)
                    /\ \A l \in Lines(doc, "b") :
                        /\ l[2] \in DOMAIN x.charge
                        /\ l[4] \in {0, 2}
                    /\ \A i \in 3 .. Len(doc) : doc[i][1] \in {"r", "b"}

C13_Witness ==
    /\ pc = "schedule_basic"
    /\ runs[1].pc = "done"
    /\ \E x \in runs[1].sol : \E b \in DOMAIN x.charge :
        /\ \E t \in x.charge[b] : t \in x.discharge[b]
        /\ \E t \in x.discharge[b] : t \notin x.charge[b]
        /\ \E t \in 0 .. (30 * d - 1) : t \notin x.charge[b] /\ t \notin x.discharge[b]
    /\ Cardinality(Lines(runs[1].ppoi_list, "r")) = 5

\* C14: the number on the second line of a returned document, 'sched N 0', is
\* the number of lines r of the document
C14_SchedCountsTheStarts ==
    \A r \in DOMAIN runs :
        runs[r].pc = "done" =>
            /\ runs[r].ppoi_list[2][1] = "sched"
            /\ runs[r].ppoi_list[2][2]
                 = Cardinality({i \in 1 .. Len(runs[r].ppoi_list) : runs[r].ppoi_list[i][1] = "r"})

\* C15: a returned document has the line 'ppoi' with the five counts of the
\* header of the instance first, the line 'sched' second, then lines r only,
\* then lines b only; no line r comes after a line b, and the periods of the
\* lines r, and those of the lines b, never decrease down the document
C15_Layout ==
    \A r \in DOMAIN runs :
        runs[r].pc = "done" =>
            LET doc == runs[r].ppoi_list
            IN  /\ Len(doc) >= 2
                /\ doc[1] = <<"ppoi", inst.counts.building, inst.counts.solar,
                              inst.counts.battery, inst.counts.recur_act, inst.counts.once_act>>
                /\ doc[2][1] = "sched" /\ Len(doc[2]) = 3 /\ doc[2][3] = 0
                /\ \A i \in 3 .. Len(doc) : doc[i][1] \in {"r", "b"}
                /\ \A i \in 3 .. Len(doc) : \A j \in 3 .. Len(doc) :
                    (i < j /\ doc[i][1] = "b") => doc[j][1] = "b"
                /\ \A i \in 3 .. Len(doc) : \A j \in 3 .. Len(doc) :
                    (i < j /\ doc[i][1] = doc[j][1]) => doc[i][3] <= doc[j][3]

C15_Witness ==
    /\ pc = "schedule_basic"
    /\ runs[1].pc = "done"
    /\ \E i \in 3 .. Len(runs[1].ppoi_list) : \E j \in 3 .. Len(runs[1].ppoi_list) :
        /\ i + 1 < j
        /\ runs[1].ppoi_list[i][1] = "r"
        /\ runs[1].ppoi_list[j][1] = "b"
        /\ runs[1].ppoi_list[j - 1][1] = "b"
        /\ runs[1].ppoi_list[j][3] < runs[1].ppoi_list[i][3]
        /\ runs[1].ppoi_list[j - 1][3] < runs[1].ppoi_list[j][3]

-----------------------------------------------------------------------------
(* Claims about the schedules of one activity that lasts a whole business day *)

\* the instance has a single recurring activity, as long as the business hours
\* of a day (32 periods for d = 96), with no precedence
OneDayLongActivity ==
    /\ Len(inst.recur) = 1
    /\ inst.recur[1].duration = (d + 2) \div 3
    /\ inst.recur[1].precedence_list = <<>>

\* the period is one of business hours, Monday to Friday
BusinessPeriod(t) ==
    /\ dayofweek(t) \in 1 .. 5
    /\ timeofday(t) >= (3 * d) \div 8
    /\ timeofday(t) < (3 * d) \div 8 + (d + 2) \div 3

\* every start is at a business period and the activity is ongoing at it and at
\* the duration - 1 periods after it
StartsAreWholeDays ==
    \A t \in ract_begin[0] :
        /\ BusinessPeriod(t)
        /\ \A dd \in 0 .. (inst.recur[1].duration - 1) : (t + dd) \in ract_ongoing[0]

\* C19 as amended: every schedule of such an instance has one start in each of
\* the four full weeks, each at a business period and followed by duration - 1
\* further periods where the activity is ongoing; over the whole grid it has 4
\* starts when the activity starts on a day from Tuesday to Friday, and 5 when it
\* starts on a Monday, the fifth on the Monday of week 5
C19_FourOrFiveStarts ==
    (Solved /\ OneDayLongActivity) =>
        /\ \A k \in 1 .. 4 : Cardinality(ract_begin[0] \cap FullWeek(k)) = 1
        /\ StartsAreWholeDays
        /\ \E t \in FullWeek(1) :
            /\ t \in ract_begin[0]
            /\ dayofweek(t) \in 2 .. 5 =>
                ract_begin[0] = {t + k * 7 * d : k \in 0 .. 3}
            /\ dayofweek(t) = 1 =>
                ract_begin[0] = {t + k * 7 * d : k \in 0 .. 4}

C19_Witness ==
    /\ Solved
    /\ OneDayLongActivity
    /\ Cardinality(ract_begin[0]) = 5
    /\ \E t \in ract_begin[0] : t >= d + 4 * 7 * d /\ (t + inst.recur[1].duration - 1) \in ract_ongoing[0]

\* C19: every schedule of such an instance has exactly 4 starts over the whole
\* grid, one in each full week, each at a business period and followed by
\* duration - 1 further periods where the activity is ongoing
C19_ExactlyFourStarts ==
    (Solved /\ OneDayLongActivity) =>
        /\ Cardinality(ract_begin[0]) = 4
        /\ \A k \in 1 .. 4 : Cardinality(ract_begin[0] \cap FullWeek(k)) = 1
        /\ StartsAreWholeDays

-----------------------------------------------------------------------------
(* Claims about phase 1 alone *)

\* phase 1 has ended with a proven optimum
Phase1Solved(r) ==
    /\ runs[r].steps = <<"read", "build1", "solve1">>
    /\ runs[r].Status = "OPTIMAL"

\* the capacity of every battery is above the base load and the load of all
\* activities together, at any period
AmpleCapacity ==
    \A bat \in bats :
        capacity_kwh(bat)
            > MaxOf(inst.netload)
                + quicksum({<<act, load_kwh(act) * no_of_rooms(act)>> : act \in acts})

\* max over t of base load plus activity power, for the activity variables of x
PeakWithoutBatteries(x) ==
    MaxOf([i \in 1 .. nperiod |-> base_load(i - 1) + x.act_power[i]])

-----------------------------------------------------------------------------
(* Claims about the calendar *)

weeks == <<week1_t, week2_t, week3_t, week4_t, week5_t>>

\* the time stamps of week k up to t that are in valid_t
ValidSoFar(k, t) == {u \in valid_t \cap weeks[k] : u <= t}

\* t is the last time stamp of week k
EndOfWeek(k, t) == t \in weeks[k] /\ t + 1 \notin weeks[k]

\* C21: valid_t is exactly the time stamps of the grid whose dayofweek is
\* Monday to Friday (1..5) and whose timeofday is from 9am up to 5pm (36..67 of
\* 96), nonvalid_t is exactly the rest of the grid, and every valid time stamp is
\* below the last one of the grid
C21_CalendarConsistent ==
    pc = "optimData" =>
        /\ fixed \in range(0, nperiod)
        /\ fixed \in valid_t <=>
                /\ dayofweek(fixed) \in 1 .. 5
                /\ timeofday(fixed) \in nine_am .. (nine_am + hours - 1)
        /\ fixed \in nonvalid_t <=> fixed \notin valid_t
        /\ fixed \in valid_t => fixed < nperiod - 1
        /\ valid_t \subseteq range(0, nperiod - 1)

\* the last time stamp of the grid, a Monday after business hours, with valid
\* time stamps earlier that day
C21_Witness ==
    /\ pc = "optimData"
    /\ fixed = nperiod - 1
    /\ dayofweek(fixed) = 1
    /\ fixed \in nonvalid_t
    /\ fixed - d + 1 + nine_am \in valid_t

\* C22 as amended: each of week1..week4 has 5 days of business hours in valid_t
\* (5 x 32), week5 has the business hours of its Monday only (32), and valid_t
\* has those of 21 days in all
C22_ValidPerWeek ==
    pc = "optimData" =>
        \A k \in DOMAIN weeks :
            /\ fixed \in weeks[k] => Cardinality(ValidSoFar(k, fixed)) <= 5 * hours
            /\ (EndOfWeek(k, fixed) /\ k <= 4) => Cardinality(ValidSoFar(k, fixed)) = 5 * hours
            /\ (EndOfWeek(k, fixed) /\ k = 5) =>
                    /\ Cardinality(ValidSoFar(k, fixed)) = hours
                    /\ Cardinality(valid_t) = 21 * hours

\* the end of week 5 is reached; it is one day long
C22_Witness ==
    /\ pc = "optimData"
    /\ EndOfWeek(5, fixed)
    /\ Cardinality(weeks[5]) = d
    /\ Cardinality(ValidSoFar(5, fixed)) = hours

\* C22: each of the five weeks week1..week5 has 5 days of business hours in
\* valid_t (5 x 32 = 160), so valid_t has 5 x 160
C22_FiveDaysInEveryWeek ==
    pc = "optimData" =>
        \A k \in DOMAIN weeks :
            EndOfWeek(k, fixed) =>
                /\ Cardinality(ValidSoFar(k, fixed)) = 5 * hours
                /\ Cardinality(valid_t) = 5 * 5 * hours

-----------------------------------------------------------------------------
(* Claims about max_limit in phase 2 *)

-----------------------------------------------------------------------------
(* Claims about the batteries *)

\* the batteries and periods where x charges and discharges at once
BothWays(x) == {<<bat, t>> \in bats \X range(0, nperiod) : t \in x.charge[bat] \cap x.discharge[bat]}

\* C24: a model of phase 2 that has feasible assignments has some in which
\* bat_charge and bat_discharge are both 1 for the same battery and period, and
\* where the assignment a run returns is one of them, its document has one
\* line of code 0 and one line of code 2 for that battery and period
C24_ChargeAndDischargeAtOnce ==
    \A r \in DOMAIN runs :
        /\ (Len(runs[r].steps) >= 4 /\ runs[r].m.feasible # {}) =>
                \E x \in runs[r].m.feasible : BothWays(x) # {}
        /\ runs[r].pc = "done" =>
                \A x \in runs[r].sol : \A e \in BothWays(x) :
                    /\ Cardinality(Places(runs[r].ppoi_list, <<"b", e[1], e[2], 0>>)) = 1
                    /\ Cardinality(Places(runs[r].ppoi_list, <<"b", e[1], e[2], 2>>)) = 1

\* a run has returned an assignment that charges and discharges a battery at
\* once, in a period later than period 0, and its document has both lines
C24_Witness ==
    /\ pc = "schedule_basic"
    /\ runs[1].pc = "done"
    /\ \E x \in runs[1].sol : \E e \in BothWays(x) :
        /\ e[2] > 0
        /\ Places(runs[1].ppoi_list, <<"b", e[1], e[2], 0>>) # {}
        /\ Places(runs[1].ppoi_list, <<"b", e[1], e[2], 2>>) # {}

\* what battery bat gives in all: the sum over the periods of
\* discharge * power * eff ^ 0.5 - charge * power * eff ^ (-0.5)
Given(x, bat) ==
    (Cardinality(x.discharge[bat]) * discharge_kwh(bat))
        - (Cardinality(x.charge[bat]) * charge_kwh(bat))

\* C25: in every feasible assignment and for every battery, the indicators of
\* every period, period 0 too, change bat_level by what they change net_power
\* by, the level before period 0 being the capacity, so that what the battery
\* gives over the whole grid is not above its capacity
C25_EnergyConserved ==
    \A r \in DOMAIN runs :
        Len(runs[r].steps) >= 2 =>
            \A x \in runs[r].m.feasible : \A bat \in bats :
                /\ \A t \in range(0, nperiod) :
                    x.level[bat][t + 1]
                        = (IF t = 0 THEN capacity_kwh(bat) ELSE x.level[bat][t])
                            + (Val(x.charge[bat], t) * charge_kwh(bat))
                            - (Val(x.discharge[bat], t) * discharge_kwh(bat))
                /\ Given(x, bat) <= capacity_kwh(bat)

-----------------------------------------------------------------------------
(* Claims about the periods an activity is ongoing *)

\* C26: in every feasible assignment an activity is ongoing at a period only
\* if it began at that period or less than its duration before, so that in
\* each full week it is ongoing for as many periods as its duration
C26_OngoingOnlyWhileRunning ==
    pc = "solved" =>
        \A act \in acts :
            /\ \A t \in ract_ongoing[act] :
                \E t0 \in ract_begin[act] : t - duration(act) < t0 /\ t0 <= t
            /\ \A wk \in full_weeks :
                Cardinality(ract_ongoing[act] \cap wk) = duration(act)

\* the business hours of the day of period t
Window(t) == range((t \div d) * d + nine_am, (t \div d) * d + nine_am + hours)

\* C27: in every feasible assignment an activity that begins at period t has t
\* and t + duration - 1 in the business hours of the same day, a weekday, and
\* an instance with a recurring activity longer than the business hours of a
\* day (32 periods) has no feasible assignment, be its duration up to a week
C27_FitsInOneDay ==
    /\ pc = "solved" =>
            \A act \in acts : \A t \in ract_begin[act] :
                /\ t \in valid_t /\ t + duration(act) - 1 \in valid_t
                /\ t \in Window(t) /\ t + duration(act) - 1 \in Window(t)
    /\ (\E act \in acts : duration(act) > hours) =>
            /\ pc # "solved"
            /\ \A act \in acts : duration(act) > hours => ract_begin[act] = {}

\* the search has fixed every period of week 1 but the last and the activity,
\* longer than the business hours of a day, has not begun
C27_Witness ==
    /\ pc = "optimize"
    /\ duration(0) > hours /\ duration(0) <= w
    /\ fixed = rank[week_last[week1_t]]
    /\ ract_begin[0] = {}
    /\ ract_ongoing[0] # {}

-----------------------------------------------------------------------------
(* Claims about the loop of pipeline.py *)

\* the file at place k holds what the pipeline wrote: the two first lines of a
\* solution at least
Written(k) == final_output[k].exists /\ Len(final_output[k].lines) >= 2

\* C28: the files are handled one at a time in the order of the list: the
\* files before the one at hand are written and those after it are as they
\* were; the file of an instance is created and written only after both solves
\* of its run and the extraction are done, and the next file is at hand only
\* once it is written; a run begins only between two files; and after an error,
\* of the solver or of opening the file, nothing is done any more
C28_OneAtATimeInOrder ==
    /\ [](\A k \in DOMAIN final_output :
            /\ k < file => Written(k)
            /\ k > file => final_output[k] \in {NoFile, OldFile}
            /\ (k = file /\ pc \in {"for file in files", "schedule_basic", "error"})
                    => final_output[k] \in {NoFile, OldFile})
    /\ [](Len(costs) \in {file - 1, file} /\ (pc = "schedule_basic" => Len(costs) = file - 1))
    /\ [][\A k \in DOMAIN final_output :
            final_output'[k] # final_output[k] =>
                /\ k = file
                /\ pc \in {"open", "write"}
                /\ runs[1].pc = "done"
                /\ runs[1].steps = <<"read", "build1", "solve1", "build2", "solve2", "extract">>]_vars
    /\ [][file' # file =>
            /\ file' = file + 1
            /\ pc = "write"
            /\ final_output'[file].exists /\ Len(final_output'[file].lines) >= 2]_vars
    /\ [][(pc # "schedule_basic" /\ pc' = "schedule_basic") =>
                (pc = "for file in files" /\ runs'[1].steps = <<>>)]_vars
    /\ [][pc # "error" /\ pc # "ENDING PIPELINE"]_vars

\* the first file is written and the run of the second has failed in phase 1:
\* the second file is not there and the pipeline has ended with the error
C28_Witness ==
    /\ pc = "error"
    /\ file = 2
    /\ Len(costs) = 1
    /\ Written(1)
    /\ final_output[2] = NoFile
    /\ runs[1].steps = <<"read", "build1", "solve1">>
    /\ runs[1].pc = "error"

====
